---- MODULE Spec2Model ----
(***************************************************************************)
(* Batch image conversion: the batch worker of src/process.rs              *)
(* (convert_images and get_files), the mpsc channel it reports through,    *)
(* and the controller of src/ui.rs (App: Run / Stop buttons, one event     *)
(* polled per frame).                                                      *)
(*                                                                         *)
(* The worker speaks types::Message; the controller's match is written     *)
(* against structs::update::Update.  AsUpdate states the correspondence.   *)
(***************************************************************************)
EXTENDS Integers, Sequences, FiniteSets, TLC

\* ------------------------------------------------------------------ bounds
MaxEntries == 2      \* entries in the input directory
MaxBatches == 2      \* times Run is clicked
MaxEdits == 1        \* edits made on the settings pages
MaxDim == 5          \* width and height of an image given to resize_image
MaxNodes == 4        \* files and directories under "input" given to get_files

\* ------------------------------------------------------- program constants
LOG_LENGTH == 18

\* ------------------------------------------------------------- Option<T>
None == <<>>
Some(x) == <<x>>

\* ------------------------------------------------- the input directory
\* One directory entry: its stem, whether the stem is valid UTF-8, its
\* extension (Option of a character sequence) and whether it is a regular
\* file.
Entry(stem, utf8, ext, is_file) ==
    [stem |-> stem, utf8 |-> utf8, ext |-> ext, is_file |-> is_file]

DirEntries ==
    { Entry("a", TRUE, Some(<<"j", "p", "g">>), TRUE),
      Entry("a", TRUE, Some(<<"P", "N", "G">>), TRUE),
      Entry("notes", TRUE, Some(<<"t", "x", "t">>), TRUE),
      Entry("sub", TRUE, Some(<<"j", "p", "e", "g">>), FALSE),
      Entry("xFF", FALSE, Some(<<"p", "n", "g">>), TRUE) }

Listings == { d \in SUBSET DirEntries : Cardinality(d) <= MaxEntries }

PathKinds == {"absent", "dir", "file"}

ToAsciiLowercaseChar(c) ==
    CASE c = "P" -> "p"
      [] c = "N" -> "n"
      [] c = "G" -> "g"
      [] c = "J" -> "j"
      [] c = "E" -> "e"
      [] c = "A" -> "a"
      [] c = "V" -> "v"
      [] c = "I" -> "i"
      [] c = "F" -> "f"
      [] c = "W" -> "w"
      [] c = "B" -> "b"
      [] OTHER -> c

to_ascii_lowercase_identity(s) == s
to_ascii_lowercase(s) == [k \in 1..Len(s) |-> ToAsciiLowercaseChar(s[k])]

allowed_extensions ==
    { <<"j", "p", "g">>, <<"j", "p", "e", "g">>, <<"p", "n", "g">>,
      <<"a", "v", "i", "f">> }

\* The filter_map closure of get_files.
IsImageFile(e) ==
    /\ e.is_file
    /\ e.ext # None
    /\ to_ascii_lowercase(e.ext[1]) \in allowed_extensions

\* The tree under "input" that get_files is applied to on its own: each node
\* is an entry and the directory it lies in.
Node(e, in) == [entry |-> e, in |-> in]

TreeNodes ==
    { Node(Entry("a", TRUE, Some(<<"j", "p", "g">>), TRUE), "input"),
      Node(Entry("b", TRUE, Some(<<"J", "P", "E", "G">>), TRUE), "input"),
      Node(Entry("c", TRUE, Some(<<"P", "n", "g">>), TRUE), "input"),
      Node(Entry("d", TRUE, Some(<<"A", "V", "I", "F">>), TRUE), "input"),
      Node(Entry("e", TRUE, Some(<<"W", "E", "B", "P">>), TRUE), "input"),
      Node(Entry("f", TRUE, Some(<<"j", "p">>), TRUE), "input"),
      Node(Entry("README", TRUE, None, TRUE), "input"),
      Node(Entry("png", TRUE, None, TRUE), "input"),
      Node(Entry("album", TRUE, Some(<<"p", "n", "g">>), FALSE), "input"),
      Node(Entry("sub", TRUE, None, FALSE), "input"),
      Node(Entry("n", TRUE, Some(<<"j", "p", "g">>), TRUE), "input/sub") }

\* A file lies in "input/sub" only when "input" has the directory "sub".
Trees ==
    { t \in SUBSET TreeNodes :
        /\ Cardinality(t) <= MaxNodes
        /\ (\E n \in t : n.in = "input/sub")
             => Node(Entry("sub", TRUE, None, FALSE), "input") \in t }

\* fs::read_dir(input_folder): the entries of the directory itself.
read_dir(tree, path) == { n.entry : n \in { m \in tree : m.in = path } }

\* read_dir yields the entries in a filesystem-defined order.
Orders(S) ==
    { f \in [1..Cardinality(S) -> S] :
        \A i, j \in 1..Cardinality(S) : i # j => f[i] # f[j] }

\* ------------------------------------------------------------ Progress
ProgressNew(total) == [success |-> 0, failed |-> 0, total |-> total]
increment_success(p) == [p EXCEPT !.success = @ + 1]
increment_failed(p) == [p EXCEPT !.failed = @ + 1]

\* ------------------------------------------------------------- Message
\* kind is the variant of types::Message; text tells the format strings of
\* convert_images apart; file is the position of the file in the batch.
Event(kind, text, file, n, progress) ==
    [kind |-> kind, text |-> text, file |-> file, n |-> n, progress |-> progress]

MsgFailed == Event("Failed", "Failed to get files", 0, 0, ProgressNew(0))
MsgCount(n) == Event("Message", "Processing files", 0, n, ProgressNew(0))
MsgProgress(p) == Event("Progress", "", 0, 0, p)
MsgCompleted == Event("Completed", "", 0, 0, ProgressNew(0))
MsgProcessed(i) == Event("Message", "Processed", i, 0, ProgressNew(0))
MsgWarningUntagged(i) == Event("Message", "Failed to process", i, 0, ProgressNew(0))
MsgWarning(i) == Event("Warning", "Failed to process", i, 0, ProgressNew(0))

MsgProcessingAsProcessed(i) == Event("Message", "Processed", i, 0, ProgressNew(0))
MsgProcessing(i) == Event("Message", "Processing", i, 0, ProgressNew(0))

IsStart(m) == m.kind = "Message" /\ m.text = "Processing"
IsFinished(m) ==
    \/ m.kind = "Message" /\ m.text = "Processed"
    \/ m.kind = "Warning"
IsProgress(m) == m.kind = "Progress"
IsCompleted(m) == m.kind = "Completed"
IsFailed(m) == m.kind = "Failed"

\* ------------------------------------------------------------- Settings
\* structs/settings.rs.  An EncodingOptions value is kept as its codec, a
\* ResizeOptions value as its variant and sizes.
ResizeNone == <<"None">>
Largest(size) == <<"Largest", size>>
Exact(width, height) == <<"Exact", width, height>>
Smallest(size) == <<"Smallest", size>>

SettingsDefault ==
    [encoding_options |-> "Avif", resize_options |-> ResizeNone,
     name_extension |-> None, keep_exif |-> FALSE]

\* What the three settings pages offer in the model.
Codecs == {"Avif", "WebP", "Jpeg"}
ResizeChoices == {ResizeNone, Largest(100)}
NameExtensions == {None, Some("_s")}

\* ------------------------------------------------------- resize_image
\* process.rs 154-194.  The result is the call made on the image and the
\* bounds given to it.  width, height and size are u32.  Largest multiplies
\* size by the smaller side and Smallest by the larger one; with size <= 2000
\* (the slider's range) a product reaches 2^32 only for a side of 2,147,484
\* pixels or more.  The model draws sides up to MaxDim, so no product here
\* overflows; the overflow of a call inside a batch is the "Panic" outcome
\* of ConvertImage.
Resized(call, nwidth, nheight) ==
    [call |-> call, nwidth |-> nwidth, nheight |-> nheight]

\* lines 158-170
ResizeSmallest(width, height, size) ==
    Resized("resize",
            IF width < height THEN size ELSE (size * width) \div height,
            IF height < width THEN size ELSE (size * height) \div width)

\* lines 176-189
ResizeLargestNoUpscale(width, height, size) ==
    IF width <= size /\ height <= size
    THEN Resized("none", width, height)
    ELSE Resized("resize",
                 IF width > height THEN size ELSE (size * width) \div height,
                 IF height > width THEN size ELSE (size * height) \div width)
ResizeLargest(width, height, size) ==
    Resized("resize",
            IF width > height THEN size ELSE (size * width) \div height,
            IF height > width THEN size ELSE (size * height) \div width)

resize_image(width, height, options) ==
    CASE options[1] = "Smallest" -> ResizeSmallest(width, height, options[2])
      [] options[1] = "Exact" -> Resized("resize_to_fill", options[2], options[3])
      [] options[1] = "Largest" -> ResizeLargest(width, height, options[2])
      [] options[1] = "None" -> Resized("none", width, height)

\* The images and options resize_image is applied to on its own.
Sizes == {0, 3, 100}
ResizeArgs ==
    [fn : {"resize_image"}, width : 1..MaxDim, height : 1..MaxDim,
     options : {ResizeNone} \cup {Largest(z) : z \in Sizes}
                 \cup {Smallest(z) : z \in Sizes} \cup {Exact(3, 2)}]

\* ------------------------------------------------------ the output folder
\* save_image lines 253-257: the suffix of the codec.
Suffix(codec) ==
    CASE codec = "WebP" -> ".webp"
      [] codec = "Avif" -> ".avif"
      [] codec = "Jpeg" -> ".jpg"

\* save_image lines 237-261: stem, then the name extension if there is one,
\* then the suffix; the parts are kept apart instead of concatenated.
OutputName(e, s) ==
    << e.stem,
       IF s.name_extension = None THEN "" ELSE s.name_extension[1],
       Suffix(s.encoding_options) >>

\* The bytes encode_image returns for a source file under given settings.
Encoded(e, s) ==
    [image |-> e, encoding_options |-> s.encoding_options,
     resize_options |-> s.resize_options]

EmptyFolder == [n \in {} |-> None]

\* fs::write, lines 264-271: creates the file or replaces its contents.
fs_write_create_new(folder, name, bytes) ==
    [n \in DOMAIN folder \cup {name} |->
        IF n \in DOMAIN folder THEN folder[n] ELSE bytes]
fs_write(folder, name, bytes) ==
    [n \in DOMAIN folder \cup {name} |-> IF n = name THEN bytes ELSE folder[n]]

\* ------------------------------------------------------------ variables
VARIABLES
    inputKind,     \* what the path "input" is
    outputKind,    \* what the path "output" is
    dir,           \* the entries of the input directory
    app,           \* "running" | "closed": whether the App (and its fields) exists
    receiver,      \* App.receiver: "None" | "Some"
    stop_flag,     \* the shared AtomicBool
    messages,      \* App.messages
    success,       \* App.success
    failed,        \* App.failed
    channel,       \* the mpsc queue of the batch
    pc,            \* where the worker thread is
    panic,         \* why the worker thread unwound, "" if it did not
    files,         \* the worker's file list
    idx,           \* position of the for loop in files
    result,        \* result of convert_image for the current file
    progress,      \* the worker's Progress
    written,       \* files of this batch whose output was written
    attempted,     \* files of this batch given to convert_image
    batch,         \* number of batches started
    sent,          \* history: every event of this batch given to the channel
    received,      \* history: every event of this batch taken by try_recv
    stopRead,      \* history: position at which the worker read the flag set, 0 if never
    kAtStop,       \* history: start events sent when Stop stored true, -1 if never
    discovery,     \* history: "none" | "ok" | "err", the outcome of get_files
    settings,      \* App.settings
    edits,         \* number of edits made on the settings pages
    wsettings,     \* the worker's settings: the clone moved into the thread
    applied,       \* history: the settings each convert_image call of this batch got
    output,        \* the files of the output folder: name -> bytes
    arg,           \* input of a function applied on its own
    ret            \* its result, None before the call

vars ==
    << inputKind, outputKind, dir, app, receiver, stop_flag, messages, success,
       failed, channel, pc, panic, files, idx, result, progress, written, attempted,
       batch, sent, received, stopRead, kAtStop, discovery, settings, edits,
       wsettings, applied, output, arg, ret >>

fsVars == << inputKind, outputKind, dir >>
uiVars == << receiver, stop_flag, messages, success, failed >>
workerVars == << pc, panic, files, idx, result, progress, written, attempted >>
fnVars == << arg, ret >>
appVars ==
    << fsVars, app, uiVars, channel, workerVars, batch, sent, received, stopRead,
       kAtStop, discovery, settings, edits, wsettings, applied, output >>

\* ------------------------------------------------- derived histories
EventClass(m) ==
    CASE IsStart(m) -> "start"
      [] IsFinished(m) -> "finished"
      [] IsProgress(m) -> "progress"
      [] IsCompleted(m) -> "completed"
      [] IsFailed(m) -> "failed"
      [] OTHER -> "message"

Indices(s, class) == { k \in 1..Len(s) : EventClass(s[k]) = class }
Count(s, class) == Cardinality(Indices(s, class))
FilesOf(s, class) == { s[k].file : k \in Indices(s, class) }

Started == FilesOf(sent, "start")
Finished == FilesOf(sent, "finished")
InFlight == Started \ Finished

\* --------------------------------------------------------------- Init
\* App::default, before any batch.  The two paths belong to the
\* environment: what they are when a batch runs is not constrained.
InitApp ==
    /\ inputKind \in PathKinds
    /\ outputKind \in PathKinds
    /\ dir \in Listings
    /\ (inputKind # "dir" => dir = {})
    /\ app = "running"
    /\ receiver = "None"
    /\ stop_flag = FALSE
    /\ messages = <<>>
    /\ success = <<>>
    /\ failed = <<>>
    /\ channel = <<>>
    /\ pc = "idle"
    /\ panic = ""
    /\ files = <<>>
    /\ idx = 1
    /\ result = ""
    /\ progress = ProgressNew(0)
    /\ written = {}
    /\ attempted = {}
    /\ batch = 0
    /\ sent = <<>>
    /\ received = <<>>
    /\ stopRead = 0
    /\ kAtStop = -1
    /\ discovery = "none"
    /\ settings = SettingsDefault
    /\ edits = 0
    /\ wsettings = SettingsDefault
    /\ applied = <<>>
    /\ output = EmptyFolder

Init ==
    /\ InitApp
    /\ arg = None
    /\ ret = None

\* ------------------------------------------------------------ channel
\* std::sync::mpsc: send appends, try_recv takes the oldest.
ChannelSend(q, m) == Append(q, m)

\* A send fails once the Receiver is dropped: App.receiver was set to None
\* or the App itself is gone.
ReceiverAlive == app = "running" /\ receiver = "Some"

\* .unwrap() on a failed send unwinds the worker thread.
OnSendErrorIgnore(next) == next
OnSendError(next) == "panicked"

\* sender.send(m).unwrap(), after which the worker is at `next`.
Send(m, next) ==
    IF ReceiverAlive
    THEN /\ channel' = ChannelSend(channel, m)
         /\ sent' = Append(sent, m)
         /\ pc' = next
         /\ panic' = panic
    ELSE /\ pc' = OnSendError(next)
         /\ panic' = "send"
         /\ UNCHANGED << channel, sent >>

\* ------------------------------------------------------------- worker
\* get_files: the checks on the two paths, in order, then read_dir.
InputAfter == IF inputKind = "absent" THEN "dir" ELSE inputKind
OutputAfter ==
    IF inputKind # "file" /\ outputKind = "absent" THEN "dir" ELSE outputKind
NotADirectory == inputKind = "file" \/ outputKind = "file"

AfterDiscoveryErrorContinue == "progress0"
AfterDiscoveryError == "done"

\* convert_images lines 33-41: get_files fails, Failed is sent, return.
GetFilesErr ==
    /\ pc = "get_files"
    /\ \E io_ok \in BOOLEAN :
         /\ NotADirectory \/ ~io_ok
         /\ inputKind' = InputAfter
         /\ outputKind' = OutputAfter
    /\ discovery' = "err"
    /\ Send(MsgFailed, AfterDiscoveryError)
    /\ UNCHANGED << dir, app, uiVars, files, idx, result, progress, written,
                    attempted, batch, received, stopRead, kAtStop >>
    /\ UNCHANGED << settings, edits, wsettings, applied, output, fnVars >>

\* convert_images lines 33-49: get_files succeeds, the count is sent.
GetFilesOk ==
    /\ pc = "get_files"
    /\ ~NotADirectory
    /\ inputKind' = InputAfter
    /\ outputKind' = OutputAfter
    /\ \E f \in Orders({ e \in dir : IsImageFile(e) }) :
         /\ files' = f
         /\ Send(MsgCount(Len(f)), "progress0")
    /\ discovery' = "ok"
    /\ UNCHANGED << dir, app, uiVars, idx, result, progress, written,
                    attempted, batch, received, stopRead, kAtStop >>
    /\ UNCHANGED << settings, edits, wsettings, applied, output, fnVars >>

\* lines 51-52
SendInitialProgress ==
    /\ pc = "progress0"
    /\ progress' = ProgressNew(Len(files))
    /\ Send(MsgProgress(ProgressNew(Len(files))), "loop")
    /\ UNCHANGED << fsVars, app, uiVars, files, idx, result, written,
                    attempted, batch, received, stopRead, kAtStop, discovery >>
    /\ UNCHANGED << settings, edits, wsettings, applied, output, fnVars >>

\* line 92: the for loop is exhausted.
SendCompleted ==
    /\ pc = "loop"
    /\ idx > Len(files)
    /\ Send(MsgCompleted, "done")
    /\ UNCHANGED << fsVars, app, uiVars, files, idx, result, progress, written,
                    attempted, batch, received, stopRead, kAtStop, discovery >>
    /\ UNCHANGED << settings, edits, wsettings, applied, output, fnVars >>

ShouldStopNever(flag) == FALSE
ShouldStop(flag) == flag

\* lines 56-59: the load of the stop flag at the head of an iteration.
CheckStop ==
    /\ pc = "loop"
    /\ idx <= Len(files)
    /\ stopRead' = IF stop_flag /\ stopRead = 0 THEN idx ELSE stopRead
    /\ IF ShouldStop(stop_flag)
       THEN Send(MsgCompleted, "done")
       ELSE /\ pc' = "start"
            /\ UNCHANGED << channel, sent, panic >>
    /\ UNCHANGED << fsVars, app, uiVars, files, idx, result, progress, written,
                    attempted, batch, received, kAtStop, discovery >>
    /\ UNCHANGED << settings, edits, wsettings, applied, output, fnVars >>

\* lines 61-65: file_name().unwrap().to_str().unwrap(), then the start message.
StartFile ==
    /\ pc = "start"
    /\ IF files[idx].utf8
       THEN Send(MsgProcessing(idx), "convert")
       ELSE /\ pc' = "panicked"
            /\ panic' = "file_name"
            /\ UNCHANGED << channel, sent >>
    /\ UNCHANGED << fsVars, app, uiVars, files, idx, result, progress, written,
                    attempted, batch, received, stopRead, kAtStop, discovery >>
    /\ UNCHANGED << settings, edits, wsettings, applied, output, fnVars >>

Outcomes == {"Ok", "Err", "Panic"}

\* line 67: convert_image returns Ok or Err, or a call inside it panics
\* (u32 overflow of size * width / height in resize_image in a build with
\* overflow checks, or a panic inside a decoder or encoder call).
\* The settings convert_image works with are the worker's own value.
WorkerSettingsShared == settings
WorkerSettings == wsettings

ConvertImage ==
    /\ pc = "convert"
    /\ attempted' = attempted \cup {idx}
    /\ applied' = Append(applied, [file |-> idx, settings |-> WorkerSettings])
    /\ \E r \in Outcomes :
         /\ result' = r
         /\ written' = IF r = "Ok" THEN written \cup {idx} ELSE written
         /\ output' = IF r = "Ok"
                       THEN fs_write(output, OutputName(files[idx], WorkerSettings),
                                     Encoded(files[idx], WorkerSettings))
                       ELSE output
         /\ pc' = IF r = "Panic" THEN "panicked" ELSE "report"
         /\ panic' = IF r = "Panic" THEN "convert_image" ELSE panic
    /\ UNCHANGED << fsVars, app, uiVars, channel, files, idx, progress, batch,
                    sent, received, stopRead, kAtStop, discovery >>
    /\ UNCHANGED << settings, edits, wsettings, fnVars >>

\* lines 68-87: the arm of the match on the result.
ReportResult ==
    /\ pc = "report"
    /\ IF result = "Ok"
       THEN /\ progress' = increment_success(progress)
            /\ Send(MsgProcessed(idx), "progress")
       ELSE /\ progress' = increment_failed(progress)
            /\ Send(MsgWarning(idx), "progress")
    /\ UNCHANGED << fsVars, app, uiVars, files, idx, result, written,
                    attempted, batch, received, stopRead, kAtStop, discovery >>
    /\ UNCHANGED << settings, edits, wsettings, applied, output, fnVars >>

\* line 89, and the step of the for loop.
SendProgress ==
    /\ pc = "progress"
    /\ idx' = idx + 1
    /\ Send(MsgProgress(progress), "loop")
    /\ UNCHANGED << fsVars, app, uiVars, files, result, progress, written,
                    attempted, batch, received, stopRead, kAtStop, discovery >>
    /\ UNCHANGED << settings, edits, wsettings, applied, output, fnVars >>

\* --------------------------------------------------------- controller
\* The Update the controller's match sees for a Message of the worker.
\* Progress has no counterpart in Update: the controller takes it from the
\* channel and does nothing with it.
AsUpdateFailureCompletes(m) ==
    CASE IsStart(m) ->
           [kind |-> "StartProcessing", file |-> m.file, success |-> FALSE, text |-> m.text]
      [] m.kind = "Warning" \/ IsCompleted(m) ->
           [kind |-> "QueueCompleted", file |-> 0, success |-> FALSE, text |-> m.text]
      [] IsFinished(m) ->
           [kind |-> "FinishedProcessing", file |-> m.file,
            success |-> TRUE, text |-> m.text]
      [] IsProgress(m) ->
           [kind |-> "None", file |-> 0, success |-> FALSE, text |-> m.text]
      [] OTHER ->
           [kind |-> "Message", file |-> 0, success |-> FALSE, text |-> m.text]
AsUpdate(m) ==
    CASE IsStart(m) ->
           [kind |-> "StartProcessing", file |-> m.file, success |-> FALSE, text |-> m.text]
      [] IsFinished(m) ->
           [kind |-> "FinishedProcessing", file |-> m.file,
            success |-> (m.kind = "Message"), text |-> m.text]
      [] IsCompleted(m) ->
           [kind |-> "QueueCompleted", file |-> 0, success |-> FALSE, text |-> m.text]
      [] IsProgress(m) ->
           [kind |-> "None", file |-> 0, success |-> FALSE, text |-> m.text]
      [] OTHER ->
           [kind |-> "Message", file |-> 0, success |-> FALSE, text |-> m.text]

Line(text, file) == [text |-> text, file |-> file]

push_message(log, line) ==
    LET pushed == Append(log, line)
    IN  IF Len(pushed) > LOG_LENGTH THEN Tail(pushed) ELSE pushed

\* The fields of App the frame works on, with the channel it polls.
UiState ==
    [receiver |-> receiver, stop_flag |-> stop_flag, messages |-> messages,
     success |-> success, failed |-> failed, channel |-> channel,
     received |-> received]

stop_processing(u) == [u EXCEPT !.stop_flag = TRUE]

handle_completion(u) ==
    [u EXCEPT !.receiver = "None", !.success = <<>>, !.failed = <<>>,
              !.stop_flag = FALSE]

start_processing(u) ==
    [u EXCEPT !.stop_flag = FALSE, !.receiver = "Some", !.messages = <<>>,
              !.channel = <<>>, !.received = <<>>]

\* handle_messages: at most one event is taken per call.
handle_messages(u) ==
    IF u.receiver = "Some" /\ u.channel # <<>>
    THEN LET m == Head(u.channel)
             upd == AsUpdate(m)
             taken == [u EXCEPT !.channel = Tail(u.channel),
                                !.received = Append(u.received, m)]
         IN  CASE upd.kind = "StartProcessing" ->
                    [taken EXCEPT !.messages =
                        push_message(@, Line("Processing", upd.file))]
               [] upd.kind = "FinishedProcessing" ->
                    IF upd.success
                    THEN [taken EXCEPT
                            !.success = Append(@, upd.file),
                            !.messages = push_message(@, Line("Processed", upd.file))]
                    ELSE [taken EXCEPT
                            !.failed = Append(@, upd.file),
                            !.messages =
                                push_message(@, Line("Failed to process", upd.file))]
               [] upd.kind = "Message" ->
                    [taken EXCEPT !.messages = push_message(@, Line(upd.text, 0))]
               [] upd.kind = "QueueCompleted" ->
                    LET message == IF taken.stop_flag THEN "Stopped" ELSE "Completed in"
                        completed == handle_completion(taken)
                    IN  [completed EXCEPT !.messages = push_message(@, Line(message, 0))]
               [] OTHER -> taken
    ELSE u

SetUi(u) ==
    /\ receiver' = u.receiver
    /\ stop_flag' = u.stop_flag
    /\ messages' = u.messages
    /\ success' = u.success
    /\ failed' = u.failed
    /\ channel' = u.channel
    /\ received' = u.received

\* App::update in a frame without a click that takes effect.
UpdateFrame ==
    /\ app = "running"
    /\ handle_messages(UiState) # UiState
    /\ SetUi(handle_messages(UiState))
    /\ UNCHANGED << fsVars, app, workerVars, batch, sent, stopRead, kAtStop,
                    discovery >>
    /\ UNCHANGED << settings, edits, wsettings, applied, output, fnVars >>

\* ui.rs 323: the Run button is shown when receiver is None.
RunAlwaysAvailable(u) == TRUE
RunAvailable(u) == u.receiver = "None"

\* App::update in a frame in which Run is clicked: the button is there when
\* receiver is None after handle_messages.
UpdateRun ==
    /\ app = "running"
    /\ batch < MaxBatches
    /\ RunAvailable(handle_messages(UiState))
    /\ SetUi(start_processing(handle_messages(UiState)))
    /\ pc' = "get_files"
    /\ panic' = ""
    /\ files' = <<>>
    /\ idx' = 1
    /\ result' = ""
    /\ progress' = ProgressNew(0)
    /\ written' = {}
    /\ attempted' = {}
    /\ batch' = batch + 1
    /\ sent' = <<>>
    /\ stopRead' = 0
    /\ kAtStop' = -1
    /\ discovery' = "none"
    /\ UNCHANGED << fsVars, app >>
    /\ wsettings' = settings
    /\ applied' = <<>>
    /\ UNCHANGED << settings, edits, output, fnVars >>

\* App::update in a frame in which Stop is clicked: the button is there when
\* receiver is Some after handle_messages, and enabled while the flag is clear.
UpdateStop ==
    /\ app = "running"
    /\ handle_messages(UiState).receiver = "Some"
    /\ ~handle_messages(UiState).stop_flag
    /\ SetUi(stop_processing(handle_messages(UiState)))
    /\ kAtStop' = Cardinality(Started)
    /\ UNCHANGED << fsVars, app, workerVars, batch, sent, stopRead, discovery >>
    /\ UNCHANGED << settings, edits, wsettings, applied, output, fnVars >>

\* The window is closed: the App is dropped, and its Receiver with it.
CloseApp ==
    /\ app = "running"
    /\ app' = "closed"
    /\ UNCHANGED << fsVars, uiVars, channel, workerVars, batch, sent, received,
                    stopRead, kAtStop, discovery >>
    /\ UNCHANGED << settings, edits, wsettings, applied, output, fnVars >>

\* encoding_page: the combo box puts the chosen codec, with its default
\* parameters, into settings.encoding_options.
EditEncoding ==
    /\ app = "running"
    /\ edits < MaxEdits
    /\ edits' = edits + 1
    /\ \E c \in Codecs \ {settings.encoding_options} :
         settings' = [settings EXCEPT !.encoding_options = c]
    /\ UNCHANGED << fsVars, app, uiVars, channel, workerVars, batch, sent,
                    received, stopRead, kAtStop, discovery, wsettings, applied,
                    output, fnVars >>

\* resize_page: resize_input writes settings.resize_options.
EditResize ==
    /\ app = "running"
    /\ edits < MaxEdits
    /\ edits' = edits + 1
    /\ \E r \in ResizeChoices \ {settings.resize_options} :
         settings' = [settings EXCEPT !.resize_options = r]
    /\ UNCHANGED << fsVars, app, uiVars, channel, workerVars, batch, sent,
                    received, stopRead, kAtStop, discovery, wsettings, applied,
                    output, fnVars >>

\* export_page: the text field writes settings.name_extension.
EditNameExtension ==
    /\ app = "running"
    /\ edits < MaxEdits
    /\ edits' = edits + 1
    /\ \E x \in NameExtensions \ {settings.name_extension} :
         settings' = [settings EXCEPT !.name_extension = x]
    /\ UNCHANGED << fsVars, app, uiVars, channel, workerVars, batch, sent,
                    received, stopRead, kAtStop, discovery, wsettings, applied,
                    output, fnVars >>

Next ==
    \/ GetFilesErr
    \/ GetFilesOk
    \/ SendInitialProgress
    \/ SendCompleted
    \/ CheckStop
    \/ StartFile
    \/ ConvertImage
    \/ ReportResult
    \/ SendProgress
    \/ UpdateFrame
    \/ UpdateRun
    \/ UpdateStop
    \/ CloseApp

Spec == Init /\ [][Next]_vars

\* The worker thread is scheduled as long as it has a step to take, and the
\* window is repainted as long as an event waits in the channel.
WorkerStep ==
    \/ GetFilesErr
    \/ GetFilesOk
    \/ SendInitialProgress
    \/ SendCompleted
    \/ CheckStop
    \/ StartFile
    \/ ConvertImage
    \/ ReportResult
    \/ SendProgress

FairSpec == Spec /\ WF_vars(WorkerStep) /\ WF_vars(UpdateFrame)

\* The same program with a user who also edits the settings pages.
NextEdit ==
    \/ Next
    \/ EditEncoding
    \/ EditResize
    \/ EditNameExtension

\* The settings pages are exercised on a directory of two images that differ
\* in their extension only.
InitEdit ==
    /\ Init
    /\ inputKind = "dir" => dir = { e \in DirEntries : e.stem = "a" }

SpecEdit == InitEdit /\ [][NextEdit]_vars

\* ------------------------------------------- resize_image on its own
InitResize ==
    /\ InitApp
    /\ inputKind = "dir"
    /\ outputKind = "dir"
    /\ dir = {}
    /\ arg \in ResizeArgs
    /\ ret = None

CallResizeImage ==
    /\ arg # None
    /\ arg.fn = "resize_image"
    /\ ret = None
    /\ ret' = Some(resize_image(arg.width, arg.height, arg.options))
    /\ UNCHANGED << appVars, arg >>

NextResize == CallResizeImage

SpecResize == InitResize /\ [][NextResize]_vars

\* ---------------------------------------------- get_files on its own
InitDiscovery ==
    /\ InitApp
    /\ inputKind = "dir"
    /\ outputKind = "dir"
    /\ dir = {}
    /\ arg \in [fn : {"get_files"}, tree : Trees]
    /\ ret = None

\* get_files with both folders present: lines 115-136.
CallGetFiles ==
    /\ arg # None
    /\ arg.fn = "get_files"
    /\ ret = None
    /\ \E f \in Orders({ e \in read_dir(arg.tree, "input") : IsImageFile(e) }) :
         ret' = Some(f)
    /\ UNCHANGED << appVars, arg >>

NextDiscovery == CallGetFiles

SpecDiscovery == InitDiscovery /\ [][NextDiscovery]_vars

\* ============================================================== claims
WorkerOver == pc \in {"done", "panicked"}
Last(s) == s[Len(s)]
IsPrefix(s, t) == Len(s) <= Len(t) /\ s = SubSeq(t, 1, Len(s))

\* C1: every started batch whose worker has returned (the for loop ran out,
\* the stop flag was read set, or get_files failed) has emitted exactly one
\* Completed event; no batch emits two.
C1_ExactlyOneCompleted ==
    /\ Count(sent, "completed") <= 1
    /\ (pc = "done" => Count(sent, "completed") = 1)

\* C2: once the worker has read the stop flag set, before the file at
\* position stopRead, that file and every later one is skipped: none is given
\* to convert_image, none has a start or finished event, the only progress
\* events are those of the files before it, and the worker is over.
C2_SkippedFilesSilent ==
    stopRead # 0 =>
        /\ \A j \in stopRead..Len(files) :
              /\ j \notin Started
              /\ j \notin Finished
              /\ j \notin attempted
              /\ j \notin written
        /\ Count(sent, "progress") <= stopRead
        /\ WorkerOver

\* C2 witness: the flag was read set before the second of two files; the
\* first was processed and the batch ended with Completed.
C2_Witness ==
    /\ stopRead = 2
    /\ Len(files) = 2
    /\ Finished = {1}
    /\ pc = "done"
    /\ IsCompleted(Last(sent))

\* C3: with the consumer present, when Stop is clicked after K files have
\* started and the worker thread is over, at least K and at most N finished
\* events have been emitted.
C3_FinishedAtLeastK ==
    (kAtStop >= 0 /\ WorkerOver /\ app = "running") =>
        /\ Cardinality(Finished) >= kAtStop
        /\ Count(sent, "finished") <= Len(files)

\* C4: in the order of sending and in the order of receiving, every finished
\* event of a file is preceded by the start event of that file.
StartPrecedesFinished(s) ==
    \A k \in 1..Len(s) :
        IsFinished(s[k]) =>
            \E q \in 1..(k - 1) : IsStart(s[q]) /\ s[q].file = s[k].file

C4_StartBeforeFinished ==
    /\ StartPrecedesFinished(sent)
    /\ StartPrecedesFinished(received)
    /\ IsPrefix(received, sent)

\* C4 witness: the consumer has received the finished events of two files,
\* one a success and one a failure.
C4_Witness ==
    /\ Count(received, "finished") = 2
    /\ \E k \in 1..Len(received) : received[k].kind = "Warning"
    /\ \E k \in 1..Len(received) : received[k] = MsgProcessed(received[k].file)

\* C5: in a batch that is not cancelled, with the consumer present and no
\* panic inside convert_image, once the worker thread is over every file has
\* exactly one start and one finished event, successes and failures add up to
\* the number of files, and Completed is the last event.
C5_FailuresIsolated ==
    (/\ WorkerOver
     /\ discovery = "ok"
     /\ stopRead = 0
     /\ app = "running"
     /\ panic # "convert_image") =>
        /\ Started = 1..Len(files)
        /\ Finished = 1..Len(files)
        /\ Count(sent, "start") = Len(files)
        /\ Count(sent, "finished") = Len(files)
        /\ progress.success + progress.failed = Len(files)
        /\ IsCompleted(Last(sent))

\* C6: a panic while one file is processed never ends the worker thread:
\* the thread unwinds only when a send finds the consumer gone.
C6_PanicCaught ==
    pc = "panicked" => panic \notin {"file_name", "convert_image"}

\* C7: after get_files failed, the only event the batch ever sends is one
\* Failed: the worker that returned has sent exactly that, the consumer has
\* received nothing else, and no file was started, converted or written.
C7_DiscoveryFailureAborts ==
    discovery = "err" =>
        /\ sent \in {<<>>, <<MsgFailed>>}
        /\ (pc = "done" => sent = <<MsgFailed>>)
        /\ IsPrefix(received, sent)
        /\ WorkerOver
        /\ attempted = {}
        /\ written = {}

\* C7 witness: a path that is not a directory made get_files fail, and the
\* consumer has received the one Failed event.
C7_Witness ==
    /\ discovery = "err"
    /\ NotADirectory
    /\ received = <<MsgFailed>>
    /\ channel = <<>>

\* C8: once a send has failed because the consumer is gone, no further file
\* is given to convert_image or written, and nothing more is sent.
C8_SendFailureAborts ==
    [][panic = "send" =>
          /\ attempted' = attempted
          /\ written' = written
          /\ sent' = sent
          /\ pc' = "panicked"]_vars

\* C8 witness: a send failed after the first of two files was started, with
\* the second not yet started.
C8_Witness ==
    /\ panic = "send"
    /\ Len(files) = 2
    /\ attempted = {1}
    /\ app = "closed"

C10_ResetOnlyAtBatchStart ==
    [][(stop_flag /\ ~stop_flag') => batch' = batch + 1]_vars

\* C10 amended: the stop flag goes from true to false only after the worker
\* returned having sent Completed, in the step in which the consumer handles
\* that event or starts the next batch; it goes from false to true only by
\* a Stop click while a batch is shown as running.
C10_FlagMonotonicWithinBatch ==
    [][/\ (stop_flag /\ ~stop_flag') =>
             /\ pc = "done"
             /\ IsCompleted(Last(sent))
             /\ \/ channel = <<MsgCompleted>> /\ receiver' = "None"
                \/ batch' = batch + 1
       /\ (~stop_flag /\ stop_flag') =>
             /\ receiver' = "Some"
             /\ batch' = batch]_vars

\* C10 witness: the flag is clear again after a batch that was stopped.
C10_Witness ==
    /\ ~stop_flag
    /\ receiver = "None"
    /\ kAtStop >= 0
    /\ messages # <<>>
    /\ Last(messages).text = "Stopped"

\* C11: Run starts a batch worker only when no earlier batch is active: the
\* first batch apart, the worker of the batch before has returned and its
\* one Completed event has been sent and taken by the consumer.
C11_OneBatchAtATime ==
    [][batch' = batch + 1 =>
          \/ batch = 0 /\ pc = "idle"
          \/ /\ pc = "done"
             /\ Count(sent, "completed") = 1
             /\ \/ Count(received, "completed") = 1
                \/ channel = <<MsgCompleted>>]_vars

\* C11 witness: a second batch has been started and its worker is running.
C11_Witness ==
    /\ batch = 2
    /\ pc = "convert"
    /\ receiver = "Some"

\* C12: every convert_image call of a batch works with the settings the
\* App had when Run started the batch, whatever the settings pages were
\* changed to afterwards.
C12_SettingsAreSnapshot ==
    \A k \in 1..Len(applied) : applied[k].settings = wsettings

\* C12, the snapshot itself: the worker's settings change only when a batch
\* starts, and then to the App's settings of that moment.
C12_SnapshotFixed ==
    [][/\ batch' = batch => wsettings' = wsettings
       /\ batch' # batch => wsettings' = settings]_vars

\* C12 witness: the first file of a batch has been converted, the App's
\* settings have since been edited away from those of the batch, and the
\* second file is about to be converted.
C12_Witness ==
    /\ pc = "convert"
    /\ idx = 2
    /\ Len(applied) = 1
    /\ applied[1].settings = wsettings
    /\ settings # wsettings

\* C13: for Largest(size) the bounds given to the rescaling are
\* (size, size*h/w) when w >= h and (size*w/h, size) otherwise, with
\* truncating division, and the image is rescaled to them in every case,
\* also when it already fits in size x size.
C13_LargestTarget ==
    (/\ arg # None
     /\ arg.fn = "resize_image"
     /\ arg.options[1] = "Largest"
     /\ ret # None)
    => LET w == arg.width
           h == arg.height
           size == arg.options[2]
       IN  /\ ret[1].call = "resize"
           /\ << ret[1].nwidth, ret[1].nheight >> =
                 IF w >= h THEN << size, (size * h) \div w >>
                           ELSE << (size * w) \div h, size >>

\* C13 witness: an image that already fits in size x size has been given
\* larger bounds, one of them a quotient that was rounded down.
C13_Witness ==
    /\ arg # None
    /\ arg.fn = "resize_image"
    /\ arg.options = Largest(100)
    /\ arg.width = 2
    /\ arg.height = 3
    /\ ret = Some(Resized("resize", 66, 100))

\* C14: when two files of a batch that were both converted have the same
\* output name, each of them is reported as processed and not as failed, the
\* output folder holds one file of that name, and its bytes are those of the
\* file converted later.
C14_CollisionOverwrites ==
    \A i, j \in written :
        (i < j /\ OutputName(files[i], wsettings) = OutputName(files[j], wsettings))
        => /\ OutputName(files[j], wsettings) \in DOMAIN output
           /\ output[OutputName(files[j], wsettings)] = Encoded(files[j], wsettings)
           /\ \A n \in Indices(sent, "finished") :
                 sent[n].file \in {i, j} => sent[n] = MsgProcessed(sent[n].file)
           /\ batch = 1 =>
                 DOMAIN output = { OutputName(files[k], wsettings) : k \in written }

\* C14 witness: a.jpg and a.PNG were both converted to a.avif in the first
\* batch, both "Processed" events were sent, and the folder holds one file.
C14_Witness ==
    /\ batch = 1
    /\ pc = "done"
    /\ written = {1, 2}
    /\ files[1].ext # files[2].ext
    /\ OutputName(files[1], wsettings) = OutputName(files[2], wsettings)
    /\ {MsgProcessed(1), MsgProcessed(2)} \subseteq { sent[n] : n \in 1..Len(sent) }
    /\ Cardinality(DOMAIN output) = 1
    /\ output[<<"a", "", ".avif">>] = Encoded(files[2], wsettings)

\* C15: get_files returns, each once, exactly the entries lying directly in
\* the input directory that are regular files and whose extension is jpg,
\* jpeg, png or avif in any mix of upper and lower case; nothing from a
\* subdirectory, with another extension or without an extension.
C15_DiscoveryExact ==
    (arg # None /\ arg.fn = "get_files" /\ ret # None)
    => LET found == ret[1]
           spellings == { <<"j", "p", "g">>, <<"J", "P", "E", "G">>,
                          <<"P", "n", "g">>, <<"A", "V", "I", "F">> }
           expected == { n.entry : n \in { m \in arg.tree :
                            /\ m.in = "input"
                            /\ m.entry.is_file
                            /\ m.entry.ext \in { Some(x) : x \in spellings } } }
       IN  /\ { found[k] : k \in 1..Len(found) } = expected
           /\ Len(found) = Cardinality(expected)

\* C15 witness: of an upper-case JPEG, a file without extension, a directory
\* and a jpg inside that directory, only the JPEG was returned.
C15_Witness ==
    /\ arg # None
    /\ arg.fn = "get_files"
    /\ arg.tree = { Node(Entry("b", TRUE, Some(<<"J", "P", "E", "G">>), TRUE), "input"),
                    Node(Entry("README", TRUE, None, TRUE), "input"),
                    Node(Entry("sub", TRUE, None, FALSE), "input"),
                    Node(Entry("n", TRUE, Some(<<"j", "p", "g">>), TRUE), "input/sub") }
    /\ ret = Some(<< Entry("b", TRUE, Some(<<"J", "P", "E", "G">>), TRUE) >>)

\* C16: when the completion event has been handled, the log ends with
\* "Stopped" only if the worker left the loop on the flag, so that at least
\* one file of the batch was skipped; a batch all of whose files were given
\* to convert_image is logged as completed.
C16_StoppedOnlyIfSkipped ==
    (/\ batch > 0
     /\ receiver = "None"
     /\ Count(received, "completed") = 1
     /\ messages # <<>>
     /\ Last(messages).text = "Stopped")
    => /\ stopRead # 0
       /\ Cardinality(attempted) < Len(files)

\* C17: while the window stays open, every batch that was started leads to
\* the controller being idle again: the receiver is None, so that Run is
\* offered, and the stop flag is false.
C17_EventuallyIdle ==
    (receiver = "Some") ~> ((receiver = "None" /\ ~stop_flag) \/ app = "closed")

====
